---- MODULE Spec2Model ----
(***************************************************************************)
(* QR code service of rhythmic-be: bulk generation of unique codes,        *)
(* redemption, single and bulk deletion, all running as concurrent         *)
(* request handlers against one shared MongoDB collection.                 *)
(*                                                                         *)
(* Every `await` on the store in the source is one atomic step of the      *)
(* model; the synchronous code between two awaits belongs to the step of   *)
(* the await that precedes it.                                             *)
(***************************************************************************)
EXTENDS Integers, Sequences, FiniteSets, TLC

VARIABLES
    store,      \* the QRCode collection: a set of documents
    nextId,     \* next ObjectId to hand out
    now,        \* the wall clock (Date.now())
    gens,       \* generateBulkQRCodes requests, in order of arrival
    redeems,    \* redeemQRCode requests, in order of arrival
    dels,       \* deleteQRCode / bulkDeleteQRCodes requests, in order of arrival
    reads       \* getQRCodes / getQRCodeById requests, in order of arrival

vars == <<store, nextId, now, gens, redeems, dels, reads>>

----------------------------------------------------------------------------
(* Bounds of the model *)

MaxGens == 2
MaxRedeems == 2
MaxDeletes == 1
MaxQuantity == 2
MaxClock == 1
\* how many colliding draws one slot makes in the concurrency specification
MaxRetries == 1
MaxReads == 1
\* how many delete requests run against each other
MaxConcurrentDeletes == 2
\* the documents of the collection the list requests page through
MaxSeeded == 101
\* how many earlier lookups of a group are still out when a lookup returns
MaxOvertaken == 1

----------------------------------------------------------------------------
(* Program constants *)

maxAttempts == 100
batchSize == 100
MaxBulkQuantity == 10000
MinCodeLength == 8
MaxCodeLength == 20
DefaultLength == 12
DefaultLimit == 50
MaxLimit == 100

UNREDEEMED == "unredeemed"
REDEEMED == "redeemed"

SUPER_ADMIN == "super_admin"
MANUFACTURER == "manufacturer"
APP_USER == "app_user"

\* the users collection (fixed here): id -> userType
Users == {"admin", "mfr", "app"}
UserTypeOf(u) ==
    CASE u = "admin" -> SUPER_ADMIN
      [] u = "mfr" -> MANUFACTURER
      [] u = "off" -> MANUFACTURER
      [] OTHER -> APP_USER

\* who sends requests: the users, a manufacturer whose account was
\* deactivated ("off"), and a caller without a valid token ("anon")
Callers == Users \cup {"off", "anon"}

\* authenticate: the token names a user that exists and is active
authenticate(u) == u \in Users

\* authorize(...allowedUserTypes)
authorize(allowed, u) == UserTypeOf(u) \in allowed
\* requirePortalUser as it would be if it let every role through
requirePortalUser_AnyRole(u) == authorize({APP_USER, SUPER_ADMIN, MANUFACTURER}, u)

requirePortalUser(u) == authorize({SUPER_ADMIN, MANUFACTURER}, u)
requireAnyUser(u) == authorize({APP_USER, SUPER_ADMIN, MANUFACTURER}, u)

\* optional fields of a document
Absent == <<>>
Some(x) == <<x>>

Min(a, b) == IF a < b THEN a ELSE b

----------------------------------------------------------------------------
(* qrCodeGenerator *)

HexDigits == <<"0","1","2","3","4","5","6","7","8","9","a","b","c","d","e","f">>
UpperHex == {"A","B","C","D","E","F"}
HexChar(n) == HexDigits[n + 1]

\* the bytes crypto.randomBytes may return: n copies of one of these values
ByteVals == {171, 205}
randomBytes(n) == { [i \in 1..n |-> b] : b \in ByteVals }

\* Buffer.toString('hex')
toHex(bytes) ==
    [i \in 1..(2 * Len(bytes)) |->
        IF i % 2 = 1 THEN HexChar(bytes[(i + 1) \div 2] \div 16)
                     ELSE HexChar(bytes[i \div 2] % 16)]

\* substring as it would be if the hex text were not cut to the length
substring_Whole(s, n) == s

substring(s, n) == SubSeq(s, 1, Min(n, Len(s)))

\* Math.ceil(length / 2)
CeilHalf(length) == (length + 1) \div 2

\* the candidates one draw of generateUniqueQRCode can produce
Candidates(length) ==
    { substring(toHex(bytes), length) : bytes \in randomBytes(CeilHalf(length)) }

\* generateBatchId(): timestamp plus 4 random bytes; two calls may coincide
BatchIds == {"batch_1", "batch_2"}

\* /^[a-f0-9]{8,20}$/i
isValidQRCode(code) ==
    /\ Len(code) >= MinCodeLength
    /\ Len(code) <= MaxCodeLength
    /\ \A i \in 1..Len(code) :
          \E n \in 0..15 : code[i] = HexChar(n) \/ code[i] \in UpperHex

\* String.prototype.trim, the sanitizer of validateQRCodeRedemption
trim(text) ==
    LET inked == { i \in 1..Len(text) : text[i] # " " }
    IN  IF inked = {} THEN <<>>
        ELSE SubSeq(text, CHOOSE i \in inked : \A j \in inked : i <= j,
                          CHOOSE i \in inked : \A j \in inked : i >= j)

----------------------------------------------------------------------------
(* The store *)

\* a new document, with the schema's defaults
NewDoc(id, code, generatedBy, batchId, quantity, batchNumber, createdAt) ==
    [ id |-> id, code |-> code, status |-> UNREDEEMED,
      generatedBy |-> generatedBy, batchId |-> batchId,
      quantity |-> quantity, batchNumber |-> batchNumber,
      isActive |-> TRUE, redeemedAt |-> Absent, redeemedBy |-> Absent,
      createdAt |-> createdAt ]

\* FindByCode as it would be if the lookup never found a document
FindByCode_Never(s, code) == {}

\* QRCode.findOne({ code })
FindByCode(s, code) == { r \in s : r.code = code }

\* FindUnredeemed as it would be if the status were not part of the query
FindUnredeemed_AnyStatus(s, code) == { r \in s : r.code = code }

\* QRCode.findOne({ code, status: UNREDEEMED })
FindUnredeemed(s, code) == { r \in s : r.code = code /\ r.status = UNREDEEMED }

\* FindById as it would be if a removed document were still found
FindById_Stale(s, id) ==
    IF \E r \in s : r.id = id THEN { r \in s : r.id = id }
    ELSE { NewDoc(id, <<>>, "mfr", "batch_1", 1, 1, 0) }

\* QRCode.findById(id)
FindById(s, id) == { r \in s : r.id = id }

\* the unique index on code
DuplicateKey(s, doc) == \E r \in s : r.code = doc.code

\* InsertOne as it would be without the unique index on code
InsertOne_NoUniqueIndex(s, doc) == s \cup {doc}

\* one document of an insertMany: rejected by the unique index, or stored
InsertOne(s, doc) == IF DuplicateKey(s, doc) THEN s ELSE s \cup {doc}

----------------------------------------------------------------------------
(* Initial state: an empty collection, no request yet *)

Init ==
    /\ store = {}
    /\ nextId = 1
    /\ now = 0
    /\ gens = <<>>
    /\ redeems = <<>>
    /\ dels = <<>>
    /\ reads = <<>>

\* a collection that already holds a document when the server starts: any
\* document of the schema, its isActive flag set either way (no handler of
\* the service writes the flag; the schema declares and indexes it)
SeededDocs ==
    { [NewDoc(1, c, "mfr", "batch_0", 1, 1, 0) EXCEPT !.isActive = a] :
        c \in Candidates(MinCodeLength), a \in BOOLEAN }

InitSeeded ==
    /\ \E doc \in SeededDocs : store = {doc}
    /\ nextId = 2
    /\ now = 0
    /\ gens = <<>>
    /\ redeems = <<>>
    /\ dels = <<>>
    /\ reads = <<>>

\* a collection that holds the documents of one earlier generation request
\* of MaxSeeded codes, their timestamps set one after the other
ManySeededDocs ==
    { NewDoc(k, toHex(<<0, 0, 0, k>>), "mfr", "batch_0", MaxSeeded, k,
             k - MaxSeeded) : k \in 1..MaxSeeded }

InitManySeeded ==
    /\ store = ManySeededDocs
    /\ nextId = MaxSeeded + 1
    /\ now = 0
    /\ gens = <<>>
    /\ redeems = <<>>
    /\ dels = <<>>
    /\ reads = <<>>

\* the clock advances on its own
Tick ==
    /\ now < MaxClock
    /\ now' = now + 1
    /\ UNCHANGED <<store, nextId, gens, redeems, dels, reads>>

----------------------------------------------------------------------------
(* generateBulkQRCodes *)

\* a slot of the current group: one running generateUniqueQRCode call
NewSlot == [attempts |-> 0, code |-> Absent]
SlotResolved(slot) == slot.code # Absent

\* StartGroup as it would be if every remaining slot were started at once
StartGroup_All(count, i) == [s \in 1..(count - i) |-> NewSlot]

\* Array.from({ length: currentBatchSize }, () => generateUniqueQRCode(length))
StartGroup(count, i) == [s \in 1..Min(batchSize, count - i) |-> NewSlot]

\* ValidGeneration as it would be with the upper edges left out
ValidGeneration_Exclusive(quantity, length) ==
    /\ quantity >= 1
    /\ quantity < MaxBulkQuantity
    /\ length >= MinCodeLength
    /\ length < MaxCodeLength

\* validateQRCodeGeneration and the controller's own quantity check
ValidGeneration(quantity, length) ==
    /\ quantity >= 1
    /\ quantity <= MaxBulkQuantity
    /\ length >= MinCodeLength
    /\ length <= MaxCodeLength

\* a request that was answered without reaching the generator
RejectedGen(u, quantity, length, status) ==
    [ actor |-> u, quantity |-> quantity, length |-> length, batchId |-> "",
      pc |-> "done", i |-> 0, slots |-> <<>>, codes |-> <<>>,
      firstId |-> 0, k |-> 0, rejected |-> {}, createdAt |-> 0,
      status |-> status, respCodes |-> <<>> ]

\* the request arrives: route middlewares, validation, generateBatchId()
\* returning b, and the first group of generateMultipleUniqueQRCodes is started
GenStart(u, quantity, length, b) ==
    /\ gens' = Append(gens,
       IF ~authenticate(u) THEN RejectedGen(u, quantity, length, 401)
       ELSE IF ~requirePortalUser(u) THEN RejectedGen(u, quantity, length, 403)
       ELSE IF ~ValidGeneration(quantity, length)
            THEN RejectedGen(u, quantity, length, 400)
       ELSE [ actor |-> u, quantity |-> quantity, length |-> length,
              batchId |-> b, pc |-> "generating", i |-> 0,
              slots |-> StartGroup(quantity, 0), codes |-> <<>>,
              firstId |-> 0, k |-> 0, rejected |-> {}, createdAt |-> 0,
              status |-> 0, respCodes |-> <<>> ])
    /\ UNCHANGED <<store, nextId, now, redeems, dels, reads>>

\* const { quantity, length = 12 } = req.body: the length is optional
GenRequest(u, quantity, lengthOpt, b) ==
    GenStart(u, quantity,
             IF lengthOpt = Absent THEN DefaultLength ELSE lengthOpt[1], b)

\* Promise.all of a group has resolved: codes.push(...batchCodes), then the
\* next group, or the documents are prepared and insertMany is called
GroupDone(g, slots) ==
    LET codes == g.codes \o [s \in 1..Len(slots) |-> slots[s].code[1]]
        i == g.i + batchSize
    IN  IF i < g.quantity
        THEN [g EXCEPT !.codes = codes, !.i = i,
                       !.slots = StartGroup(g.quantity, i)]
        ELSE [g EXCEPT !.codes = codes, !.i = i, !.slots = <<>>,
                       !.pc = "inserting", !.k = 1, !.firstId = nextId,
                       !.createdAt = now]

\* generateUniqueQRCode threw: Promise.all rejects, the controller answers 500
GenFailed(g, s) ==
    [g EXCEPT !.pc = "done", !.status = 500, !.slots[s].attempts = maxAttempts]

\* one round of generateUniqueQRCode in slot s: draw a candidate, look it up
GenSlotTry(n, s, cap) ==
    /\ n \in 1..Len(gens)
    /\ gens[n].pc = "generating"
    /\ s \in 1..Len(gens[n].slots)
    /\ ~SlotResolved(gens[n].slots[s])
    /\ \E c \in Candidates(gens[n].length) :
         LET g == gens[n]
             slot == g.slots[s]
         IN  IF FindByCode(store, c) = {}
             THEN LET slots == [g.slots EXCEPT ![s].code = Some(c)]
                  IN  IF \A t \in 1..Len(slots) : SlotResolved(slots[t])
                      THEN /\ gens' = [gens EXCEPT ![n] = GroupDone(g, slots)]
                           /\ nextId' = IF g.i + batchSize < g.quantity
                                        THEN nextId
                                        ELSE nextId + g.quantity
                      ELSE /\ gens' = [gens EXCEPT ![n].slots = slots]
                           /\ nextId' = nextId
             ELSE /\ slot.attempts < cap
                  /\ nextId' = nextId
                  /\ gens' = [gens EXCEPT ![n] =
                        IF slot.attempts + 1 < maxAttempts
                        THEN [g EXCEPT !.slots[s].attempts = slot.attempts + 1]
                        ELSE GenFailed(g, s)]
    /\ UNCHANGED <<store, now, redeems, dels, reads>>

\* the document insertMany writes for position k of the request
DocOf(g, k) ==
    NewDoc(g.firstId + k - 1, g.codes[k], g.actor, g.batchId, g.quantity,
           k, g.createdAt)

\* insertMany has written every document: it throws if any was rejected,
\* otherwise the controller answers 201 with the codes of the result
GenRespond(g) ==
    IF g.rejected # {}
    THEN [g EXCEPT !.pc = "done", !.status = 500]
    ELSE [g EXCEPT !.pc = "done", !.status = 201, !.respCodes = g.codes]

\* insertMany({ ordered: false }) writes its next document
GenInsertDoc(n) ==
    /\ n \in 1..Len(gens)
    /\ gens[n].pc = "inserting"
    /\ LET g == gens[n]
           doc == DocOf(g, g.k)
           stored == InsertOne(store, doc)
           g2 == [g EXCEPT !.k = g.k + 1,
                           !.rejected = IF doc \in stored THEN g.rejected
                                        ELSE g.rejected \cup {g.k}]
       IN  /\ store' = stored
           /\ gens' = [gens EXCEPT ![n] =
                    IF g.k = Len(g.codes) THEN GenRespond(g2) ELSE g2]
    /\ UNCHANGED <<nextId, now, redeems, dels, reads>>

----------------------------------------------------------------------------
(* redeemQRCode *)

\* SaveRedeemed as it would be if save() flipped the status it finds
SaveRedeemed_Toggle(s, id, t, u) ==
    { IF r.id = id
      THEN [r EXCEPT !.status = IF r.status = REDEEMED THEN UNREDEEMED
                                 ELSE REDEEMED,
                     !.redeemedAt = Some(t), !.redeemedBy = Some(u)]
      ELSE r : r \in s }

\* SaveRedeemed as it would be if the controller did not set redeemedBy
SaveRedeemed_NoActor(s, id, t, u) ==
    { IF r.id = id
      THEN [r EXCEPT !.status = REDEEMED, !.redeemedAt = Some(t)]
      ELSE r : r \in s }

\* SaveRedeemed as it would be if the controller did not set the status
SaveRedeemed_NoStatus(s, id, t, u) ==
    { IF r.id = id
      THEN [r EXCEPT !.redeemedAt = Some(t), !.redeemedBy = Some(u)]
      ELSE r : r \in s }

\* SaveRedeemed as it would be if redeeming also switched the code off
SaveRedeemed_Deactivate(s, id, t, u) ==
    { IF r.id = id
      THEN [r EXCEPT !.status = REDEEMED, !.redeemedAt = Some(t),
                     !.redeemedBy = Some(u), !.isActive = FALSE]
      ELSE r : r \in s }

\* SaveRedeemed as it would be if redeemedAt were taken from a clock that
\* runs behind the one that stamps createdAt
SaveRedeemed_Backdated(s, id, t, u) ==
    { IF r.id = id
      THEN [r EXCEPT !.status = REDEEMED, !.redeemedAt = Some(t - 1),
                     !.redeemedBy = Some(u)]
      ELSE r : r \in s }

\* qrCode.save() of the three modified paths: updateOne({ _id }, { $set })
SaveRedeemed(s, id, t, u) ==
    { IF r.id = id
      THEN [r EXCEPT !.status = REDEEMED, !.redeemedAt = Some(t),
                     !.redeemedBy = Some(u)]
      ELSE r : r \in s }

\* the request arrives with req.body.code = body: route middleware, the
\* sanitizer of validateQRCodeRedemption (its errors are never read), the
\* format check, then findOne({ code, status: UNREDEEMED })
RedeemStart(u, body) ==
    /\ LET code == trim(body)
           found == FindUnredeemed(store, code)
           base == [ actor |-> u, body |-> body, code |-> code, pc |-> "done",
                     docId |-> 0, foundAt |-> now, status |-> 0,
                     redeemedAt |-> Absent, lookup |-> FALSE ]
       IN  redeems' = Append(redeems,
             IF ~authenticate(u) THEN [base EXCEPT !.status = 401]
             ELSE IF ~requireAnyUser(u) THEN [base EXCEPT !.status = 403]
             ELSE IF ~isValidQRCode(code) THEN [base EXCEPT !.status = 400]
             ELSE IF found = {}
                  THEN [base EXCEPT !.status = 404, !.lookup = TRUE]
             ELSE [base EXCEPT !.pc = "save", !.lookup = TRUE,
                               !.docId = (CHOOSE r \in found : TRUE).id])
    /\ UNCHANGED <<store, nextId, now, gens, dels, reads>>

\* status, redeemedAt = new Date() and redeemedBy are set on the document
\* that was read, and save() writes them; save() throws when the document
\* is gone (DocumentNotFoundError), which the controller answers with 500
RedeemSave(n) ==
    /\ n \in 1..Len(redeems)
    /\ redeems[n].pc = "save"
    /\ LET q == redeems[n]
       IN  \E t \in q.foundAt..now :
             IF FindById(store, q.docId) = {}
             THEN /\ store' = store
                  /\ redeems' = [redeems EXCEPT ![n].pc = "done",
                                                ![n].status = 500]
             ELSE /\ store' = SaveRedeemed(store, q.docId, t, q.actor)
                  /\ redeems' = [redeems EXCEPT ![n].pc = "done",
                                                ![n].status = 200,
                                                ![n].redeemedAt = Some(t)]
    /\ UNCHANGED <<nextId, now, gens, dels, reads>>

----------------------------------------------------------------------------
(* deleteQRCode and bulkDeleteQRCodes *)

\* what a delete response reports of a document
Summary(r) == [id |-> r.id, code |-> r.code, batchId |-> r.batchId]

\* AccessDenied as it would be without the ownership check
AccessDenied_Off(u, r) == FALSE

\* the ownership check of getQRCodeById and deleteQRCode
AccessDenied(u, r) == UserTypeOf(u) = MANUFACTURER /\ r.generatedBy # u

\* BulkQuery as it would be if qrCodeIds won over batchId
BulkQuery_IdsFirst(u, qrCodeIds, batchId) ==
    [ batchId |-> IF qrCodeIds # Absent THEN Absent ELSE batchId,
      ids |-> qrCodeIds,
      generatedBy |-> IF UserTypeOf(u) = MANUFACTURER THEN Some(u) ELSE Absent ]

\* the query of bulkDeleteQRCodes: batchId wins over qrCodeIds, and a
\* manufacturer is restricted to the documents it generated
BulkQuery(u, qrCodeIds, batchId) ==
    [ batchId |-> batchId,
      ids |-> IF batchId # Absent THEN Absent ELSE qrCodeIds,
      generatedBy |-> IF UserTypeOf(u) = MANUFACTURER THEN Some(u) ELSE Absent ]

Matches(q, r) ==
    /\ q.batchId # Absent => r.batchId = q.batchId[1]
    /\ q.ids # Absent => r.id \in q.ids[1]
    /\ q.generatedBy # Absent => r.generatedBy = q.generatedBy[1]

\* QRCode.find(query)
Find(s, q) == { r \in s : Matches(q, r) }

\* QRCode.deleteMany(query)
DeleteMany(s, q) == { r \in s : ~Matches(q, r) }

\* QRCode.findByIdAndDelete(id)
FindByIdAndDelete(s, id) == { r \in s : r.id # id }

\* ValidBulkDeletion as it would be if no body were rejected
ValidBulkDeletion_Lenient(qrCodeIds, batchId) == TRUE

\* validateBulkQRCodeDeletion and the controller's own checks of the body
ValidBulkDeletion(qrCodeIds, batchId) ==
    /\ qrCodeIds # Absent => qrCodeIds[1] # {}
    /\ batchId # Absent => batchId[1] # ""
    /\ qrCodeIds # Absent \/ batchId # Absent

NewDel(kind, u, id, q) ==
    [ kind |-> kind, actor |-> u, id |-> id,
      body |-> [qrCodeIds |-> Absent, batchId |-> Absent], query |-> q,
      pc |-> "done", lookup |-> FALSE, found |-> {}, removed |-> {},
      deletedCount |-> 0, status |-> 0 ]

NoQuery == [batchId |-> Absent, ids |-> Absent, generatedBy |-> Absent]

\* DELETE /:id arrives: route middleware, findById, ownership check
DelStart(u, id) ==
    /\ LET found == FindById(store, id)
           base == NewDel("single", u, id, NoQuery)
           read == [base EXCEPT !.lookup = TRUE]
       IN  dels' = Append(dels,
             IF ~authenticate(u) THEN [base EXCEPT !.status = 401]
             ELSE IF ~requirePortalUser(u) THEN [base EXCEPT !.status = 403]
             ELSE IF found = {} THEN [read EXCEPT !.status = 404]
             ELSE IF \E r \in found : AccessDenied(u, r)
                  THEN [read EXCEPT !.status = 403]
             ELSE [read EXCEPT !.pc = "remove",
                               !.found = {Summary(r) : r \in found}])
    /\ UNCHANGED <<store, nextId, now, gens, redeems, reads>>

\* findByIdAndDelete(id), then the response built from the document read before
DelRemove(n) ==
    /\ n \in 1..Len(dels)
    /\ dels[n].kind = "single"
    /\ dels[n].pc = "remove"
    /\ store' = FindByIdAndDelete(store, dels[n].id)
    /\ dels' = [dels EXCEPT ![n].pc = "done", ![n].status = 200,
                            ![n].removed = {r.id : r \in store \ store'}]
    /\ UNCHANGED <<nextId, now, gens, redeems, reads>>

\* DELETE / arrives: route middleware, validation, the query, QRCode.find
BulkDelStart(u, qrCodeIds, batchId) ==
    /\ LET q == BulkQuery(u, qrCodeIds, batchId)
           found == Find(store, q)
           base == [NewDel("bulk", u, 0, q) EXCEPT
                       !.body = [qrCodeIds |-> qrCodeIds, batchId |-> batchId]]
           read == [base EXCEPT !.lookup = TRUE]
       IN  dels' = Append(dels,
             IF ~authenticate(u) THEN [base EXCEPT !.status = 401]
             ELSE IF ~requirePortalUser(u) THEN [base EXCEPT !.status = 403]
             ELSE IF ~ValidBulkDeletion(qrCodeIds, batchId)
                  THEN [base EXCEPT !.status = 400]
             ELSE IF found = {} THEN [read EXCEPT !.status = 404]
             ELSE [read EXCEPT !.pc = "remove",
                               !.found = {Summary(r) : r \in found}])
    /\ UNCHANGED <<store, nextId, now, gens, redeems, reads>>

\* deleteMany(query), then the response: deletedCount of this call, and the
\* summaries of the documents found before
BulkDelRemove(n) ==
    /\ n \in 1..Len(dels)
    /\ dels[n].kind = "bulk"
    /\ dels[n].pc = "remove"
    /\ store' = DeleteMany(store, dels[n].query)
    /\ dels' = [dels EXCEPT ![n].pc = "done", ![n].status = 200,
                            ![n].removed = {r.id : r \in store \ store'},
                            ![n].deletedCount = Cardinality(store \ store')]
    /\ UNCHANGED <<nextId, now, gens, redeems, reads>>

----------------------------------------------------------------------------
(* getQRCodes and getQRCodeById *)

\* the characters of a batch id, for the $regex of the search filter
BatchIdText(b) ==
    CASE b = "batch_1" -> <<"b","a","t","c","h","_","1">>
      [] b = "batch_2" -> <<"b","a","t","c","h","_","2">>
      [] OTHER -> <<>>

\* $options: 'i' compares letters without their case
LowerOf(ch) ==
    CASE ch = "A" -> "a" [] ch = "B" -> "b" [] ch = "C" -> "c"
      [] ch = "D" -> "d" [] ch = "E" -> "e" [] ch = "F" -> "f"
      [] OTHER -> ch
toLowerCase(text) == [i \in 1..Len(text) |-> LowerOf(text[i])]

\* { $regex: search, $options: 'i' } for a search text without
\* metacharacters: the field contains the text
RegexMatch(text, search) ==
    \E i \in 0..(Len(text) - Len(search)) :
        SubSeq(toLowerCase(text), i + 1, i + Len(search)) = toLowerCase(search)

\* the filters of a list request, as they come in req.query
NewFilter(status, batchId, generatedBy, search) ==
    [ status |-> status, batchId |-> batchId, generatedBy |-> generatedBy,
      search |-> search ]

\* ListQuery as it would be without the manufacturer's restriction
ListQuery_NoOverride(u, f) ==
    [ status |-> IF f.status # Absent /\ f.status[1] \in {UNREDEEMED, REDEEMED}
                 THEN f.status ELSE Absent,
      batchId |-> f.batchId,
      generatedBy |-> f.generatedBy,
      search |-> f.search ]

\* the query getQRCodes builds: a status that is not of the enum is ignored,
\* and a manufacturer's generatedBy is replaced by its own id
ListQuery(u, f) ==
    [ status |-> IF f.status # Absent /\ f.status[1] \in {UNREDEEMED, REDEEMED}
                 THEN f.status ELSE Absent,
      batchId |-> f.batchId,
      generatedBy |-> IF UserTypeOf(u) = MANUFACTURER THEN Some(u)
                      ELSE f.generatedBy,
      search |-> f.search ]

ListMatches(q, r) ==
    /\ q.status # Absent => r.status = q.status[1]
    /\ q.batchId # Absent => r.batchId = q.batchId[1]
    /\ q.generatedBy # Absent => r.generatedBy = q.generatedBy[1]
    /\ q.search # Absent =>
          \/ RegexMatch(r.code, q.search[1])
          \/ RegexMatch(BatchIdText(r.batchId), q.search[1])

\* QRCode.find(query) of getQRCodes
ListFind(s, q) == { r \in s : ListMatches(q, r) }

\* .sort({ createdAt: -1 }): the orders the sort may return (documents with
\* equal createdAt come in any order)
RECURSIVE SortedByCreatedAtDesc(_)
SortedByCreatedAtDesc(docs) ==
    LET keys == { d.createdAt : d \in docs }
    IN  IF Cardinality(keys) <= 1
        THEN { o \in [1..Cardinality(docs) -> docs] :
                 \A i \in DOMAIN o, j \in DOMAIN o : i # j => o[i] # o[j] }
        ELSE LET m == CHOOSE k \in keys :
                        Cardinality({ j \in keys : j > k })
                           = Cardinality(keys) \div 2
                 later == { d \in docs : d.createdAt > m }
             IN  { a \o b : a \in SortedByCreatedAtDesc(later),
                            b \in SortedByCreatedAtDesc(docs \ later) }

\* .skip(skip).limit(limit)
Page(o, skip, limit) == SubSeq(o, skip + 1, Min(skip + limit, Len(o)))

NewRead(kind, u, f, id, page, limit) ==
    [ kind |-> kind, actor |-> u, filter |-> f, id |-> id, page |-> page,
      limit |-> limit, query |-> f, pc |-> "done", lookup |-> FALSE,
      qrCodes |-> <<>>, total |-> 0, status |-> 0,
      stats |-> [ byStatus |-> {}, unredeemedCount |-> 0,
                  redeemedCount |-> 0, recentBatches |-> {} ] ]

NoFilter == NewFilter(Absent, Absent, Absent, Absent)

\* GET / arrives: route middleware, the query, find().sort().skip().limit()
ListStart(u, f, page, limit) ==
    /\ LET q == ListQuery(u, f)
           base == NewRead("list", u, f, 0, page, limit)
       IN  IF ~authenticate(u)
           THEN reads' = Append(reads, [base EXCEPT !.status = 401])
           ELSE IF ~requirePortalUser(u)
           THEN reads' = Append(reads, [base EXCEPT !.status = 403])
           ELSE \E o \in SortedByCreatedAtDesc(ListFind(store, q)) :
                  reads' = Append(reads,
                     [base EXCEPT !.pc = "count", !.query = q, !.lookup = TRUE,
                                  !.qrCodes = Page(o, (page - 1) * limit, limit)])
    /\ UNCHANGED <<store, nextId, now, gens, redeems, dels>>

\* countDocuments(query), then the response
ListCount(n) ==
    /\ n \in 1..Len(reads)
    /\ reads[n].pc = "count"
    /\ reads' = [reads EXCEPT
                   ![n].pc = "done", ![n].status = 200,
                   ![n].total = Cardinality(ListFind(store, reads[n].query))]
    /\ UNCHANGED <<store, nextId, now, gens, redeems, dels>>

\* GET /:id: route middleware, findById().populate(), ownership check.
\* generatedBy is populated when it is compared: populatedDiffers is whether
\* toString() of the populated owner differs from the id of the owner
GetByIdStart(u, id, populatedDiffers) ==
    /\ LET found == FindById(store, id)
           base == NewRead("byId", u, NoFilter, id, 0, 0)
           read == [base EXCEPT !.lookup = TRUE]
       IN  reads' = Append(reads,
             IF ~authenticate(u) THEN [base EXCEPT !.status = 401]
             ELSE IF ~requirePortalUser(u) THEN [base EXCEPT !.status = 403]
             ELSE IF found = {} THEN [read EXCEPT !.status = 404]
             ELSE IF \E r \in found :
                        \/ AccessDenied(u, r)
                        \/ UserTypeOf(u) = MANUFACTURER /\ populatedDiffers
                  THEN [read EXCEPT !.status = 403]
             ELSE [read EXCEPT !.status = 200,
                               !.qrCodes = <<CHOOSE r \in found : TRUE>>])
    /\ UNCHANGED <<store, nextId, now, gens, redeems, dels>>

\* the query of getQRCodeStats: a manufacturer counts its own documents
StatsQuery(u) ==
    [NoFilter EXCEPT !.generatedBy = IF UserTypeOf(u) = MANUFACTURER
                                     THEN Some(u) ELSE Absent]

\* aggregate([{ $match }, { $group: { _id: '$status', count } }])
ByStatus(docs) ==
    { [status |-> st, count |-> Cardinality({r \in docs : r.status = st})] :
        st \in {r.status : r \in docs} }

\* aggregate([{ $match }, { $group: { _id: '$batchId', count } }, ...]); the
\* $limit of 10 groups is never reached by the batch ids of the model
ByBatch(docs) ==
    { [batchId |-> b, count |-> Cardinality({r \in docs : r.batchId = b})] :
        b \in {r.batchId : r \in docs} }

\* GET /stats arrives: route middleware, the query, the first aggregate
StatsStart(u) ==
    /\ LET base == [NewRead("stats", u, NoFilter, 0, 0, 0) EXCEPT
                       !.query = StatsQuery(u)]
       IN  reads' = Append(reads,
             IF ~authenticate(u) THEN [base EXCEPT !.status = 401]
             ELSE IF ~requirePortalUser(u) THEN [base EXCEPT !.status = 403]
             ELSE [base EXCEPT !.pc = "total", !.lookup = TRUE,
                      !.stats.byStatus = ByStatus(ListFind(store, base.query))])
    /\ UNCHANGED <<store, nextId, now, gens, redeems, dels>>

\* the three countDocuments and the second aggregate of getQRCodeStats, one
\* await each, then the response
StatsStep(n) ==
    /\ n \in 1..Len(reads)
    /\ reads[n].kind = "stats"
    /\ LET q == reads[n]
           docs == ListFind(store, q.query)
           count(st) == Cardinality({r \in docs : r.status = st})
       IN  \/ /\ q.pc = "total"
              /\ reads' = [reads EXCEPT ![n].pc = "unredeemed",
                                        ![n].total = Cardinality(docs)]
           \/ /\ q.pc = "unredeemed"
              /\ reads' = [reads EXCEPT ![n].pc = "redeemed",
                              ![n].stats.unredeemedCount = count(UNREDEEMED)]
           \/ /\ q.pc = "redeemed"
              /\ reads' = [reads EXCEPT ![n].pc = "batches",
                              ![n].stats.redeemedCount = count(REDEEMED)]
           \/ /\ q.pc = "batches"
              /\ reads' = [reads EXCEPT ![n].pc = "done", ![n].status = 200,
                              ![n].stats.recentBatches = ByBatch(docs)]
    /\ UNCHANGED <<store, nextId, now, gens, redeems, dels>>

----------------------------------------------------------------------------
(* The requests the model draws *)

Quantities == 1..MaxQuantity
Lengths == {MinCodeLength}
RedeemCodes == Candidates(MinCodeLength)
KnownIds == 1..(nextId - 1)
IdInputs == {Absent} \cup {Some({i}) : i \in KnownIds}
BatchInputs == {Absent} \cup {Some(b) : b \in BatchIds}
StatusInputs == {Absent, Some(UNREDEEMED)}
OwnerInputs == {Absent, Some("admin"), Some("mfr")}
SearchInputs == {Absent, Some(<<"B","A">>)}
Filters ==
    { NewFilter(st, b, o, se) : st \in StatusInputs, b \in BatchInputs,
                                o \in OwnerInputs, se \in SearchInputs }
Pages == {1, 2}
\* an even, an odd and the longest length
ShapeLengths == {MinCodeLength, MinCodeLength + 1, MaxCodeLength}
\* the edges of the accepted ranges, and their neighbours
BoundaryQuantities == {0, 1, MaxBulkQuantity, MaxBulkQuantity + 1}
BoundaryLengths ==
    {Absent} \cup { Some(l) : l \in {MinCodeLength - 1, MinCodeLength,
                                     MaxCodeLength, MaxCodeLength + 1} }
\* codes of a wrong length, with letters in upper case, with a character
\* that is no hexadecimal digit, and with a blank around a stored format
MalformedCodes ==
    { <<"a","b","a","b","a","b","a">>,
      [i \in 1..(MaxCodeLength + 1) |-> "a"],
      <<"A","B","A","B","A","B","A","B">>,
      <<"g","h","a","b","a","b","a","b">>,
      <<" ","a","b","a","b","a","b","a","b">> }
Limits == {1, 2}
\* the default page size, the documented maximum and one more
\* a request of one group, and requests of a full group and a rest
GroupQuantities == {batchSize, batchSize + 1, 2 * batchSize + 1}
\* the bodies of a bulk delete, with an empty id set and an empty batch id
EdgeIdInputs == IdInputs \cup {Some({})}
EdgeBatchInputs == BatchInputs \cup {Some("")}
PageLimits == {DefaultLimit, MaxLimit, MaxLimit + 1}

\* the requests arrive while fewer than the bound of their kind have
MayGenerate == Len(gens) < MaxGens
MayRedeem == Len(redeems) < MaxRedeems
MayRead == Len(reads) < MaxReads

\* no generation request is in flight
GensIdle == \A n \in 1..Len(gens) : gens[n].pc = "done"

\* the batch ids no earlier request of the run was given
FreshBatchIds == BatchIds \ {gens[n].batchId : n \in 1..Len(gens)}

\* a generation request arrives, its body drawn from the given values
GenArriveWith(actors, batchIds, quantities, lengths) ==
    /\ MayGenerate
    /\ \E u \in actors, quantity \in quantities, length \in lengths,
          b \in batchIds :
          GenStart(u, quantity, length, b)

\* a generation request arrives
GenArrive(actors, batchIds) ==
    GenArriveWith(actors, batchIds, Quantities, Lengths)

\* the steps of the generation requests in flight
GenSteps(cap) ==
    \/ \E n \in 1..MaxGens, s \in 1..MaxQuantity : GenSlotTry(n, s, cap)
    \/ \E n \in 1..MaxGens : GenInsertDoc(n)

\* the steps of the redeem requests
RedeemNext(actors) ==
    \/ /\ MayRedeem
       /\ \E u \in actors, code \in RedeemCodes : RedeemStart(u, code)
    \/ \E n \in 1..MaxRedeems : RedeemSave(n)

\* the steps of the delete requests, of which at most max arrive
DeleteNextUpTo(actors, max) ==
    \/ /\ Len(dels) < max
       /\ \E u \in actors, id \in KnownIds : DelStart(u, id)
    \/ \E n \in 1..max : DelRemove(n)
    \/ /\ Len(dels) < max
       /\ \E u \in actors, qrCodeIds \in IdInputs, batchId \in BatchInputs :
             BulkDelStart(u, qrCodeIds, batchId)
    \/ \E n \in 1..max : BulkDelRemove(n)

\* the steps of the delete requests
DeleteNext(actors) == DeleteNextUpTo(actors, MaxDeletes)

\* the steps of the list and fetch requests, the filters, pages and page
\* sizes of the list requests drawn from the given values
ReadNextWith(actors, filters, pages, limits) ==
    \/ /\ MayRead
       /\ \E u \in actors, f \in filters, page \in pages, limit \in limits :
             ListStart(u, f, page, limit)
    \/ \E n \in 1..MaxReads : ListCount(n)
    \/ /\ MayRead
       /\ \E u \in actors, id \in KnownIds, populatedDiffers \in BOOLEAN :
             GetByIdStart(u, id, populatedDiffers)

\* the steps of the list and fetch requests
ReadNext(actors) == ReadNextWith(actors, Filters, Pages, Limits)

\* the steps of the statistics requests
StatsNext(actors) ==
    \/ MayRead /\ \E u \in actors : StatsStart(u)
    \/ \E n \in 1..MaxReads : StatsStep(n)

(* The life of the codes: generation requests one after the other, each    *)
(* with a batch id of its own, and concurrent redeem and delete requests.  *)
Next ==
    \/ GensIdle /\ GenArrive({"mfr"}, FreshBatchIds)
    \/ GenSteps(MaxRetries)
    \/ RedeemNext({"app", "mfr"})
    \/ DeleteNext({"admin"})

Spec == Init /\ [][Next]_vars

(* Generation and redeem requests while the clock advances.                *)
NextClock ==
    \/ GensIdle /\ GenArrive({"mfr"}, FreshBatchIds)
    \/ GenSteps(MaxRetries)
    \/ RedeemNext({"app"})
    \/ Tick

SpecClock == Init /\ [][NextClock]_vars

(* List and fetch requests on a collection of more than a hundred codes.   *)
NextPage == ReadNextWith(Users, {NoFilter}, Pages, PageLimits)

SpecPage == InitManySeeded /\ [][NextPage]_vars

\* the slots before slot s of the running group that have not resolved
Overtaken(g, s) == { t \in 1..(s - 1) : ~SlotResolved(g.slots[t]) }

(* One generation request of more than a group, on a collection that holds *)
(* one of the two codes a draw can give; every draw is of the other code,  *)
(* and the lookups of a group return nearly in the order they were sent.   *)
NextGroups ==
    \/ /\ gens = <<>>
       /\ GenArriveWith({"mfr"}, {"batch_1"}, GroupQuantities, Lengths)
    \/ \E n \in 1..MaxGens, s \in 1..batchSize :
          /\ n \in 1..Len(gens)
          /\ s \in 1..Len(gens[n].slots)
          /\ Cardinality(Overtaken(gens[n], s)) <= MaxOvertaken
          /\ GenSlotTry(n, s, 0)
    \/ \E n \in 1..MaxGens : GenInsertDoc(n)

SpecGroups == InitSeeded /\ [][NextGroups]_vars

(* Generation requests of a super admin and a manufacturer, one after the  *)
(* other and of one code each, and bulk deletes of any user with bodies of *)
(* every shape.                                                            *)
NextBulk ==
    \/ /\ GensIdle
       /\ GenArriveWith({"admin", "mfr"}, FreshBatchIds, {1}, Lengths)
    \/ GenSteps(MaxRetries)
    \/ /\ Len(dels) < MaxConcurrentDeletes
       /\ \E u \in Users, qrCodeIds \in EdgeIdInputs,
             batchId \in EdgeBatchInputs :
             BulkDelStart(u, qrCodeIds, batchId)
    \/ \E n \in 1..MaxConcurrentDeletes : BulkDelRemove(n)

SpecBulk == Init /\ [][NextBulk]_vars

(* Concurrent generation requests of any user; batch ids may coincide.     *)
NextGen ==
    \/ GenArrive(Users, BatchIds)
    \/ GenSteps(MaxRetries)

SpecGen == Init /\ [][NextGen]_vars

(* Generation requests one after the other, each slot with the full        *)
(* attempt budget of generateUniqueQRCode.                                 *)
NextExhaust ==
    \/ GensIdle /\ GenArrive({"mfr"}, FreshBatchIds)
    \/ GenSteps(maxAttempts)

SpecExhaust == Init /\ [][NextExhaust]_vars

(* Generation requests of a super admin and a manufacturer, one after the  *)
(* other, and list and fetch requests of any user.                         *)
NextRead ==
    \/ GensIdle /\ GenArrive({"admin", "mfr"}, FreshBatchIds)
    \/ GenSteps(MaxRetries)
    \/ ReadNext(Users)

SpecRead == Init /\ [][NextRead]_vars

(* Generation requests of a super admin and a manufacturer, one after the  *)
(* other, and delete requests of both that run against each other.         *)
NextAccess ==
    \/ GensIdle /\ GenArrive({"admin", "mfr"}, FreshBatchIds)
    \/ GenSteps(MaxRetries)
    \/ DeleteNextUpTo({"admin", "mfr"}, MaxConcurrentDeletes)

SpecAccess == Init /\ [][NextAccess]_vars

(* Concurrent generation requests for codes of several lengths.           *)
NextShape ==
    \/ GenArriveWith({"admin", "mfr"}, BatchIds, Quantities, ShapeLengths)
    \/ GenSteps(MaxRetries)

SpecShape == Init /\ [][NextShape]_vars

(* One request of each kind, of every caller, also of those the           *)
(* middlewares turn away: a deactivated manufacturer, a caller without a   *)
(* valid token, an app user.                                               *)
NextGate ==
    \/ gens = <<>> /\ GenArriveWith(Callers, BatchIds, {1}, Lengths)
    \/ GenSteps(MaxRetries)
    \/ /\ redeems = <<>>
       /\ \E u \in Callers, code \in RedeemCodes : RedeemStart(u, code)
    \/ \E n \in 1..MaxRedeems : RedeemSave(n)
    \/ DeleteNext(Callers)
    \/ ReadNextWith(Callers, {NoFilter}, {1}, {2})
    \/ StatsNext(Callers)

SpecGate == Init /\ [][NextGate]_vars

(* Requests at the edges of what the validation accepts: generation        *)
(* requests as they arrive, and redeem requests with malformed codes.      *)
NextValidate ==
    \/ /\ MayGenerate
       /\ \E u \in {"admin", "mfr"}, quantity \in BoundaryQuantities,
             lengthOpt \in BoundaryLengths :
             GenRequest(u, quantity, lengthOpt, "batch_1")
    \/ /\ MayRedeem
       /\ \E u \in {"app"}, body \in MalformedCodes \cup RedeemCodes :
             RedeemStart(u, body)

SpecValidate == Init /\ [][NextValidate]_vars

(* A collection seeded with one document, active or not: generation        *)
(* requests one after the other and concurrent redeem requests.            *)
NextSeeded ==
    \/ GensIdle /\ GenArrive({"mfr"}, FreshBatchIds)
    \/ GenSteps(MaxRetries)
    \/ RedeemNext({"app", "mfr"})

SpecSeeded == InitSeeded /\ [][NextSeeded]_vars

----------------------------------------------------------------------------
(* Properties *)

Gens == 1..Len(gens)
Redeems == 1..Len(redeems)
Dels == 1..Len(dels)
Reads == 1..Len(reads)

\* the redeem requests answered with success for the document id
SuccessesFor(id) ==
    { n \in Redeems : redeems[n].status = 200 /\ redeems[n].docId = id }

\* the ids insertMany gave the documents of a generation request
IdsOf(g) == IF g.k = 0 THEN {} ELSE g.firstId..(g.firstId + g.quantity - 1)

\* the documents of a generation request that are in the store
StoredOf(g) == { r \in store : r.id \in IdsOf(g) }

\* C1: of the redeem requests for one stored unredeemed code, exactly one is
\* answered with success (the others are refused): no document has two
\* successful redeem requests, and a redeemed document has exactly one.
C1_OneSuccessPerCode ==
    \A r \in store :
        /\ Cardinality(SuccessesFor(r.id)) <= 1
        /\ r.status = REDEEMED => Cardinality(SuccessesFor(r.id)) = 1

\* C2: no two stored documents have the same code.
C2_CodesUnique ==
    \A r1 \in store, r2 \in store : r1.code = r2.code => r1 = r2

\* C2 witness: two generation requests each saw the same candidate absent,
\* both went through insertMany, and the code is stored.
C2_Witness ==
    \E m \in Gens, n \in Gens :
        /\ m # n
        /\ gens[m].pc = "done" /\ gens[n].pc = "done"
        /\ \E i \in 1..Len(gens[m].codes), j \in 1..Len(gens[n].codes) :
              /\ gens[m].codes[i] = gens[n].codes[j]
              /\ FindByCode(store, gens[m].codes[i]) # {}

\* C3: redeemedAt and redeemedBy are written once: no step changes them on
\* a document that is already redeemed.
C3_RedeemedWrittenOnce ==
    [][\A r \in store : r.status = REDEEMED =>
          \A r2 \in store' : r2.id = r.id =>
              r2.redeemedBy = r.redeemedBy /\ r2.redeemedAt = r.redeemedAt]_vars

\* C4: a document that is redeemed never becomes unredeemed again: every
\* step leaves a redeemed document redeemed, or removes it.
C4_StatusMonotone ==
    [][\A r \in store : r.status = REDEEMED =>
          \A r2 \in store' : r2.id = r.id => r2.status = REDEEMED]_vars

\* C4 witness: a redeemed document is still stored and redeemed after a
\* later redeem request for its code, a delete request and a second
\* generation request have all completed.
C4_Witness ==
    \E r \in store :
        /\ r.status = REDEEMED
        /\ \E n \in Redeems, m \in Redeems :
              /\ n < m
              /\ redeems[n].status = 200 /\ redeems[n].docId = r.id
              /\ redeems[m].pc = "done" /\ redeems[m].code = r.code
        /\ \E d \in Dels : dels[d].status = 200
        /\ \E g \in Gens : gens[g].status = 201 /\ gens[g].firstId > r.id

\* C5: a stored document is redeemed exactly when it has both redeemedAt
\* and redeemedBy.
C5_RedeemedIffStamped ==
    \A r \in store :
        r.status = REDEEMED <=> (r.redeemedAt # Absent /\ r.redeemedBy # Absent)

\* C5 witness: a redeemed document (written by a successful redeem request)
\* next to a freshly generated, unredeemed one.
C5_Witness ==
    /\ \E r \in store : r.status = REDEEMED /\ SuccessesFor(r.id) # {}
    /\ \E r \in store : r.status = UNREDEEMED

\* the codes of a generation request that insertMany stored
PersistedCodes(g) == { g.codes[k] : k \in (1..(g.k - 1)) \ g.rejected }

\* C6: when the unique index rejects documents of a generation request, the
\* request is still answered 201, with exactly the codes that were stored,
\* fewer than the quantity asked for.
C6_PartialInsertSucceeds ==
    \A n \in Gens :
        (gens[n].pc = "done" /\ gens[n].rejected # {}) =>
            /\ gens[n].status = 201
            /\ { gens[n].respCodes[i] : i \in 1..Len(gens[n].respCodes) }
                  = PersistedCodes(gens[n])
            /\ Len(gens[n].respCodes) < gens[n].quantity

\* C7: the documents a completed generation request stored have the
\* batchNumber values 1..K, K being their number.
C7_BatchContiguous ==
    \A n \in Gens :
        gens[n].pc = "done" =>
            { r.batchNumber : r \in StoredOf(gens[n]) }
                = 1..Cardinality(StoredOf(gens[n]))

\* C8: the documents stored under one batchId have the batchNumber values
\* 1..N, N being their number.
C8_BatchRange ==
    \A b \in BatchIds :
        LET recs == { r \in store : r.batchId = b }
        IN  /\ { r.batchNumber : r \in recs } = 1..Cardinality(recs)
            /\ \A r1 \in recs, r2 \in recs :
                  r1.batchNumber = r2.batchNumber => r1 = r2

\* C9: when a slot of a generation request used up its attempts, the codes
\* the other slots produced are stored for the request and returned.
C9_OnlyTheSlotFails ==
    \A n \in Gens :
        (gens[n].pc = "done" /\
         \E s \in 1..Len(gens[n].slots) : gens[n].slots[s].attempts >= maxAttempts)
        => \A t \in 1..Len(gens[n].slots) :
              SlotResolved(gens[n].slots[t]) =>
                /\ \E r \in store : /\ r.code = gens[n].slots[t].code[1]
                                    /\ r.batchId = gens[n].batchId
                /\ \E i \in 1..Len(gens[n].respCodes) :
                      gens[n].respCodes[i] = gens[n].slots[t].code[1]

\* C10: generateMultipleUniqueQRCodes, when it returns, returns count codes
\* that are pairwise distinct.
C10_DistinctCodes ==
    \A n \in Gens :
        gens[n].k >= 1 =>
            /\ Len(gens[n].codes) = gens[n].quantity
            /\ \A i \in 1..Len(gens[n].codes), j \in 1..Len(gens[n].codes) :
                  gens[n].codes[i] = gens[n].codes[j] => i = j

\* the request that arrives in a step
ReadArrives == Len(reads') = Len(reads) + 1

\* the documents a list or fetch request returned
Returned(q) == { q.qrCodes[i] : i \in 1..Len(q.qrCodes) }

\* C11: a list or fetch request of a manufacturer returns no document that
\* another user generated, whatever its filters; a super admin gets the
\* documents of every owner: its list follows the filters as given (a page
\* of the documents that match them), its fetch returns any stored document.
C11_OwnRecordsOnly ==
    [][ReadArrives =>
          LET q == reads'[Len(reads')]
              matching == ListFind(store, ListQuery_NoOverride(q.actor, q.filter))
              skip == (q.page - 1) * q.limit
          IN  /\ UserTypeOf(q.actor) = MANUFACTURER =>
                    \A r \in Returned(q) : r.generatedBy = q.actor
              /\ (UserTypeOf(q.actor) = SUPER_ADMIN /\ q.kind = "list") =>
                    /\ Returned(q) \subseteq matching
                    /\ Len(q.qrCodes) =
                          Min(q.limit, IF Cardinality(matching) > skip
                                       THEN Cardinality(matching) - skip ELSE 0)
              /\ (UserTypeOf(q.actor) = SUPER_ADMIN /\ q.kind = "byId") =>
                    Returned(q) = FindById(store, q.id)]_vars

\* C11 witness: a manufacturer listed with the generatedBy filter naming the
\* super admin, whose document is stored, and got a document of its own.
C11_Witness ==
    \E n \in Reads :
        /\ reads[n].kind = "list" /\ reads[n].status = 200
        /\ reads[n].actor = "mfr"
        /\ reads[n].filter.generatedBy = Some("admin")
        /\ reads[n].qrCodes # <<>>
        /\ \E r \in store : r.generatedBy = "admin"

\* what the step removes from the store
RemovedIds == {r.id : r \in store} \ {r.id : r \in store'}

\* C12: no step of a manufacturer's delete request, single or bulk, removes
\* a document another user generated; a manufacturer's single delete of a
\* stored document of another user is answered 403 and removes nothing.
C12_DeletesOwnOnly ==
    [][/\ \A n \in Dels :
            (dels[n].pc = "remove" /\ dels'[n].pc = "done"
             /\ UserTypeOf(dels[n].actor) = MANUFACTURER)
            => \A r \in store : r.id \in RemovedIds =>
                                   r.generatedBy = dels[n].actor
       /\ Len(dels') = Len(dels) + 1 =>
            LET d == dels'[Len(dels')]
            IN  (d.kind = "single" /\ UserTypeOf(d.actor) = MANUFACTURER
                 /\ \E r \in store : r.id = d.id /\ r.generatedBy # d.actor)
                => d.status = 403 /\ d.pc = "done" /\ store' = store]_vars

\* C12 witness: a manufacturer's bulk delete by batch id and its single
\* delete have both completed, one removed documents and the other was
\* refused, and a document of the super admin is still stored.
C12_Witness ==
    /\ \E n \in Dels : /\ UserTypeOf(dels[n].actor) = MANUFACTURER
                       /\ dels[n].status = 200 /\ dels[n].removed # {}
    /\ \E n \in Dels : /\ UserTypeOf(dels[n].actor) = MANUFACTURER
                       /\ dels[n].kind = "single" /\ dels[n].status = 403
                       /\ \E r \in store : r.id = dels[n].id
    /\ \E r \in store : r.generatedBy = "admin"

\* C13: a completed successful delete request reports exactly the documents
\* it removed: the documents of its response are the ones its own delete
\* call took out of the store, and a bulk request's count is their number.
C13_ReportsWhatItRemoved ==
    \A n \in Dels :
        dels[n].status = 200 =>
            /\ {f.id : f \in dels[n].found} = dels[n].removed
            /\ dels[n].kind = "bulk" =>
                  dels[n].deletedCount = Cardinality(dels[n].found)

\* /^[a-f0-9]{8,20}$/ as the specification writes it: lower case only
MatchesLowerHex(code) ==
    /\ Len(code) >= 8
    /\ Len(code) <= 20
    /\ \A i \in 1..Len(code) : \E n \in 0..15 : code[i] = HexChar(n)

\* C14: a redeem request whose code does not match ^[a-f0-9]{8,20}$ is
\* answered with a validation error (400) without a lookup in the store.
C14_MalformedRejected ==
    [][Len(redeems') = Len(redeems) + 1 =>
          LET q == redeems'[Len(redeems')]
          IN  (requireAnyUser(q.actor) /\ ~MatchesLowerHex(q.body))
              => q.status = 400 /\ ~q.lookup /\ store' = store]_vars

RedeemArrives == Len(redeems') = Len(redeems) + 1

\* C15: a redeem request for a well-formed code that has no document in the
\* store, or whose document is redeemed, is answered 404 on arrival (it takes
\* no later step) and the store is left as it was.
C15_UnknownOrRedeemedNotFound ==
    [][RedeemArrives =>
          LET q == redeems'[Len(redeems')]
          IN  (/\ requireAnyUser(q.actor)
               /\ MatchesLowerHex(q.body)
               /\ \A r \in store : r.code = q.body => r.status = REDEEMED)
              => q.status = 404 /\ q.pc = "done" /\ store' = store]_vars

\* C15 witness: a request for a code with no document was answered 404 while
\* a document with another code is stored, unredeemed.
C15_Witness ==
    \E n \in Redeems :
        /\ redeems[n].status = 404
        /\ FindByCode(store, redeems[n].code) = {}
        /\ \E r \in store : r.status = UNREDEEMED /\ r.createdAt <= redeems[n].foundAt
        /\ \A g \in Gens : gens[g].pc = "done"
        /\ dels = <<>>

C17_SuccessThenNotFound ==
    [][/\ RedeemArrives =>
            LET q == redeems'[Len(redeems')]
            IN  /\ (/\ requireAnyUser(q.actor)
                    /\ FindByCode(store, q.code) # {}
                    /\ \A r \in store : r.code = q.code => r.status = UNREDEEMED)
                   => q.pc = "save"
                /\ (\E n \in Redeems :
                       /\ redeems[n].status = 200
                       /\ redeems[n].code = q.code
                       /\ FindById(store, redeems[n].docId) # {})
                   => q.status = 404
       /\ \A n \in Redeems :
            (/\ redeems[n].pc = "save" /\ redeems'[n].pc = "done"
             /\ FindById(store, redeems[n].docId) # {})
            => /\ redeems'[n].status = 200
               /\ \A r \in store' : r.id = redeems[n].docId =>
                                       r.status = REDEEMED]_vars

\* C17 witness: two requests of different actors for one code, the first
\* answered 200 and the second 404, the document stored and redeemed.
C17_Witness ==
    /\ Len(redeems) = 2
    /\ redeems[1].status = 200 /\ redeems[2].status = 404
    /\ redeems[1].code = redeems[2].code
    /\ redeems[1].actor # redeems[2].actor
    /\ \E r \in store : r.id = redeems[1].docId /\ r.status = REDEEMED

\* the fields of a document a redeem has no business with
Frame(r) ==
    [ id |-> r.id, code |-> r.code, generatedBy |-> r.generatedBy,
      batchId |-> r.batchId, batchNumber |-> r.batchNumber,
      quantity |-> r.quantity, isActive |-> r.isActive,
      createdAt |-> r.createdAt ]

\* C20: the step in which a redeem request succeeds changes status,
\* redeemedAt and redeemedBy of the document with the request's code, and
\* nothing else: its other fields, and every other document, stay as they are.
C20_RedeemFrame ==
    [][\A n \in Redeems :
          (redeems[n].pc = "save" /\ redeems'[n].status = 200) =>
              /\ Cardinality(store') = Cardinality(store)
              /\ \A r \in store : r.id # redeems[n].docId => r \in store'
              /\ \A r \in store : r.id = redeems[n].docId =>
                    /\ r.code = redeems[n].code
                    /\ \E r2 \in store' :
                          /\ Frame(r2) = Frame(r)
                          /\ r2.status = REDEEMED
                          /\ r2.redeemedBy = Some(redeems[n].actor)
                          /\ r2.redeemedAt = redeems'[n].redeemedAt]_vars

\* C20 witness: a request redeemed the second document of a batch of two,
\* and the first document of the batch is stored as it was generated.
C20_Witness ==
    \E n \in Redeems, r \in store, o \in store :
        /\ redeems[n].status = 200 /\ redeems[n].docId = r.id
        /\ r.batchNumber = 2 /\ r.status = REDEEMED /\ r.isActive
        /\ o.batchId = r.batchId /\ o.batchNumber = 1
        /\ o.status = UNREDEEMED /\ o.redeemedAt = Absent

\* C19: a generation request for Q codes of length L that met no collision
\* (no slot gave up, the index rejected nothing) is answered 201 with Q codes
\* and stored Q documents: the i-th returned code is the code of the i-th
\* document, it has L characters, all lower-case hexadecimal digits, and the
\* document has the request's batch id and actor, quantity Q, status
\* unredeemed and batchNumber i.
C19_GeneratedShape ==
    \A n \in Gens :
        LET g == gens[n]
        IN  (g.pc = "done" /\ g.k > 0 /\ g.rejected = {}) =>
               /\ g.status = 201
               /\ Len(g.respCodes) = g.quantity
               /\ Cardinality(StoredOf(g)) = g.quantity
               /\ \A i \in 1..g.quantity :
                     \E r \in store :
                        /\ r.id = g.firstId + i - 1
                        /\ r.code = g.respCodes[i]
                        /\ Len(r.code) = g.length
                        /\ \A j \in 1..Len(r.code) :
                              \E d \in 0..15 : r.code[j] = HexChar(d)
                        /\ r.batchId = g.batchId
                        /\ r.generatedBy = g.actor
                        /\ r.quantity = g.quantity
                        /\ r.status = UNREDEEMED
                        /\ r.batchNumber = i

\* C19 witness: a completed request for two codes of an odd length, answered
\* 201, next to a completed request of the other user.
C19_Witness ==
    \E n \in Gens, m \in Gens :
        /\ gens[n].status = 201 /\ gens[n].quantity = 2
        /\ gens[n].length = MinCodeLength + 1
        /\ gens[m].status = 201 /\ gens[m].actor # gens[n].actor

\* the answer of the middlewares to a caller they turn away
Refusal(u) == IF ~authenticate(u) THEN 401 ELSE 403

\* C21: a generate, list, fetch, stats or delete request of a caller that is
\* no active super admin or manufacturer, and a redeem request of a caller
\* that is no active user, is answered 401 or 403 on arrival, complete,
\* without a lookup, and the store is as before; a redeem request of an
\* active user of any role is not turned away.
C21_GateFirst ==
    [][/\ Len(gens') = Len(gens) + 1 =>
            LET g == gens'[Len(gens')]
            IN  ~(authenticate(g.actor) /\ UserTypeOf(g.actor) \in {SUPER_ADMIN, MANUFACTURER})
                => /\ g.status = Refusal(g.actor) /\ g.pc = "done"
                   /\ g.slots = <<>> /\ store' = store
       /\ Len(dels') = Len(dels) + 1 =>
            LET d == dels'[Len(dels')]
            IN  ~(authenticate(d.actor) /\ UserTypeOf(d.actor) \in {SUPER_ADMIN, MANUFACTURER})
                => /\ d.status = Refusal(d.actor) /\ d.pc = "done"
                   /\ ~d.lookup /\ store' = store
       /\ Len(reads') = Len(reads) + 1 =>
            LET q == reads'[Len(reads')]
            IN  ~(authenticate(q.actor) /\ UserTypeOf(q.actor) \in {SUPER_ADMIN, MANUFACTURER})
                => /\ q.status = Refusal(q.actor) /\ q.pc = "done"
                   /\ ~q.lookup /\ store' = store
       /\ Len(redeems') = Len(redeems) + 1 =>
            LET q == redeems'[Len(redeems')]
            IN  IF authenticate(q.actor)
                THEN q.status \notin {401, 403} /\ q.lookup
                ELSE /\ q.status = 401 /\ q.pc = "done"
                     /\ ~q.lookup /\ store' = store]_vars

\* C21 witness: with a document stored, an app user's delete of it was
\* answered 403, a deactivated manufacturer's read 401, and an app user
\* redeemed a code.
C21_Witness ==
    /\ \E n \in Dels : /\ dels[n].actor = "app" /\ dels[n].status = 403
                       /\ dels[n].kind = "single"
                       /\ FindById(store, dels[n].id) # {}
    /\ \E n \in Reads : reads[n].actor = "off" /\ reads[n].status = 401
    /\ \E n \in Redeems : redeems[n].actor = "app" /\ redeems[n].status = 200

\* the code at position pos of a generation request, once its slot resolved
CodeAt(g, pos) ==
    IF pos <= Len(g.codes) THEN Some(g.codes[pos])
    ELSE IF g.pc = "generating" /\ pos - g.i \in 1..Len(g.slots)
         THEN g.slots[pos - g.i].code
    ELSE Absent

\* C22: a call of generateUniqueQRCode (a slot) makes at most 100 lookups:
\* every step of a slot either resolves it or counts one more candidate found
\* present, the count never passes 100, a code is returned only when no
\* stored document had it at its lookup, and the request fails by exhaustion
\* exactly in the step in which a slot's 100th candidate is found present.
C22_BoundedAttempts ==
    [][\A n \in Gens :
          LET g == gens[n]
              h == gens'[n]
          IN  /\ \A pos \in 1..g.quantity :
                    (CodeAt(g, pos) = Absent /\ CodeAt(h, pos) # Absent)
                    => \A r \in store : r.code # CodeAt(h, pos)[1]
              /\ (g.pc = "generating" /\ h # g) =>
                    \E s \in 1..Len(g.slots) :
                       /\ ~SlotResolved(g.slots[s])
                       /\ g.slots[s].attempts < 100
                       /\ \/ CodeAt(h, g.i + s) # Absent
                          \/ /\ h.slots[s].attempts = g.slots[s].attempts + 1
                             /\ h.slots[s].code = Absent
                             /\ \E r \in store : r.code \in Candidates(g.length)
                             /\ (h.status = 500) = (h.slots[s].attempts = 100)
                             /\ (h.pc = "done") = (h.status = 500)
              /\ \A s \in 1..Len(h.slots) : h.slots[s].attempts <= 100]_vars

\* C22 witness: a request failed after a slot found its 100th candidate
\* present, while another request was answered 201.
C22_Witness ==
    /\ \E n \in Gens :
          /\ gens[n].status = 500 /\ gens[n].k = 0
          /\ \E s \in 1..Len(gens[n].slots) : gens[n].slots[s].attempts = 100
    /\ \E n \in Gens : gens[n].status = 201

\* C23: the clock that stamps createdAt and redeemedAt never goes back, and
\* every stored document that is Redeemed has redeemedAt >= createdAt.
C23_RedeemedAfterCreated ==
    /\ [][now' >= now]_vars
    /\ [](\A r \in store :
            r.status = REDEEMED =>
               /\ r.redeemedAt # Absent
               /\ r.redeemedAt[1] >= r.createdAt)

\* C23 witness: a document created after the clock advanced was redeemed,
\* and another document was redeemed later than it was created.
C23_Witness ==
    /\ \E r \in store : r.status = REDEEMED /\ r.createdAt > 0
    /\ \E r \in store : /\ r.status = REDEEMED
                        /\ r.redeemedAt[1] > r.createdAt

\* C24: a list request never returns more than 100 documents in one page,
\* whatever limit it was given.
C24_PageAtMostMax ==
    \A n \in Reads :
       reads[n].kind = "list" => Len(reads[n].qrCodes) <= MaxLimit

\* C25: the slots of a generation request run in consecutive groups of at
\* most 100: at most 100 slots are outstanding, the running group starts at
\* position i with every earlier position resolved, a new group starts only
\* in the step in which the last open slot of the group before resolves, and
\* the groups together make up the requested count.
C25_GroupsOfBatchSize ==
    [][\A n \in Gens :
          LET g == gens[n]
              h == gens'[n]
          IN  /\ Len(h.slots) <= batchSize
              /\ h.pc = "generating" =>
                    /\ Len(h.codes) = h.i
                    /\ Len(h.slots) = Min(batchSize, h.quantity - h.i)
              /\ h.pc = "inserting" => Len(h.codes) = h.quantity
              /\ (g.pc = "generating" /\ h.i # g.i) =>
                    /\ h.i = g.i + batchSize
                    /\ Len(h.codes) = Len(g.codes) + Len(g.slots)
                    /\ Cardinality({ s \in 1..Len(g.slots) :
                                       ~SlotResolved(g.slots[s]) }) = 1
                    /\ \A s \in 1..Len(h.slots) : h.slots[s] = NewSlot]_vars

\* C25 witness: a request of two full groups and a rest runs its last group
\* of one slot, the codes of the two full groups resolved.
C25_Witness ==
    \E n \in Gens :
       /\ gens[n].quantity = 2 * batchSize + 1
       /\ gens[n].pc = "generating"
       /\ gens[n].i = 2 * batchSize
       /\ Len(gens[n].codes) = 2 * batchSize
       /\ Len(gens[n].slots) = 1

\* C26: a document that a delete removed is never in the store again; a
\* redeem whose document was removed between its lookup and its save does
\* not answer with success and does not write; and a redeem answers with
\* success only in a step that leaves its document stored and Redeemed.
C26_NoRedeemOfRemoved ==
    /\ [](\A d \in Dels : \A id \in dels[d].removed :
             \A r \in store : r.id # id)
    /\ [][\A n \in Redeems :
             (redeems[n].pc = "save" /\ redeems'[n].pc = "done") =>
                LET id == redeems[n].docId
                IN  /\ (\A r \in store : r.id # id) =>
                          /\ redeems'[n].status # 200
                          /\ store' = store
                    /\ redeems'[n].status = 200 =>
                          \E r \in store' : r.id = id /\ r.status = REDEEMED]_vars

\* C26 witness: a redeem found its document, a delete removed it, and the
\* redeem's save then failed; another redeem succeeded.
C26_Witness ==
    /\ \E n \in Redeems, d \in Dels :
          /\ redeems[n].status = 500
          /\ redeems[n].docId \in dels[d].removed
    /\ \E n \in Redeems : redeems[n].status = 200

\* the documents of batch b the user u may delete
VisibleOfBatch(u, b) ==
    { r \in store : /\ r.batchId = b
                    /\ UserTypeOf(u) = MANUFACTURER => r.generatedBy = u }

\* C27: a bulk delete that was given both a batchId and a set of ids removes
\* exactly the documents of the batch its user may delete: every one of
\* them, in the id set or not, and no document of another batch, named by
\* the id set or not.
C27_BatchIdWins ==
    [][\A d \in Dels :
          LET q == dels[d]
          IN  (/\ q.kind = "bulk"
               /\ q.body.batchId # Absent
               /\ q.body.qrCodeIds # Absent
               /\ q.pc = "remove"
               /\ dels'[d].pc = "done") =>
                 /\ store \ store' = VisibleOfBatch(q.actor, q.body.batchId[1])
                 /\ store' \subseteq store]_vars

\* C27 witness: a bulk delete with a batchId and the id of a document of
\* another batch removed a document of the batch that is not in its id set,
\* and the document the id set names is still stored.
C27_Witness ==
    \E d \in Dels :
       /\ dels[d].kind = "bulk"
       /\ dels[d].status = 200
       /\ dels[d].body.batchId # Absent
       /\ dels[d].body.qrCodeIds # Absent
       /\ dels[d].removed \ dels[d].body.qrCodeIds[1] # {}
       /\ \E r \in store : /\ r.id \in dels[d].body.qrCodeIds[1]
                           /\ r.batchId # dels[d].body.batchId[1]

\* the documents a bulk delete of user u with this body selects
Selected(u, body) ==
    { r \in store :
        /\ UserTypeOf(u) = MANUFACTURER => r.generatedBy = u
        /\ IF body.batchId # Absent THEN r.batchId = body.batchId[1]
           ELSE r.id \in body.qrCodeIds[1] }

\* C28: a bulk delete of a portal user with neither a batchId nor a
\* non-empty id set is answered 400, one whose selection matches no document
\* the user may delete is answered 404, and neither removes anything: the
\* request is complete on arrival and the store is as it was.
C28_BulkRejections ==
    [][(Len(dels') = Len(dels) + 1 /\ dels'[Len(dels')].kind = "bulk") =>
          LET q == dels'[Len(dels')]
              noBatch == q.body.batchId = Absent \/ q.body.batchId[1] = ""
              noIds == q.body.qrCodeIds = Absent \/ q.body.qrCodeIds[1] = {}
          IN  requirePortalUser(q.actor) =>
                /\ (noBatch /\ noIds) => q.status = 400
                /\ (/\ ~(noBatch /\ noIds)
                    /\ q.body.batchId = Absent \/ ~noBatch
                    /\ q.body.qrCodeIds = Absent \/ ~noIds) =>
                      (q.status = 404) = (Selected(q.actor, q.body) = {})
                /\ q.status \in {400, 404} =>
                      /\ q.pc = "done"
                      /\ q.removed = {}
                      /\ store' = store]_vars

\* C28 witness: with codes stored, a bulk delete without batchId and ids was
\* answered 400, and a manufacturer's bulk delete of a stored batch of the
\* super admin was answered 404; the codes are still stored.
C28_Witness ==
    /\ \E d \in Dels :
          /\ dels[d].kind = "bulk" /\ dels[d].status = 400
          /\ dels[d].body.batchId = Absent /\ dels[d].body.qrCodeIds = Absent
          /\ requirePortalUser(dels[d].actor)
    /\ \E d \in Dels :
          /\ dels[d].kind = "bulk" /\ dels[d].status = 404
          /\ dels[d].actor = "mfr"
          /\ dels[d].body.batchId # Absent
          /\ \E r \in store : /\ r.batchId = dels[d].body.batchId[1]
                              /\ r.generatedBy = "admin"

====
